---------------------------- MODULE Spec2Model ----------------------------
(***************************************************************************)
(* A model of hosting_checker.py: the hosting classifier (identify_host),  *)
(* the name-server resolver and classifier (get_name_server_provider) and  *)
(* the fetch orchestrator (check_hosting).                                 *)
(*                                                                         *)
(* Python strings are TLA+ strings; TLC evaluates Len, SubSeq and \o on    *)
(* them, so substring tests, lower-casing, splitting and the regular       *)
(* expression of check_hosting are computed character by character.        *)
(* The outside world (what an HTTP GET of a url yields, what an NS query   *)
(* of a domain yields) is a fixed table; the input list is drawn from the  *)
(* links of that table.                                                    *)
(***************************************************************************)
EXTENDS Integers, Sequences, FiniteSets, TLC

\* The longest input list check_hosting is run on.
MaxLinks == 2

-----------------------------------------------------------------------------
(* Python values and string methods *)

\* Python's None (an absent attribute, a tag without a single string).
None == "<None>"

\* BeautifulSoup's head_tag.title when the head holds no title element.
NoTitle == "<no title element>"

UpperChars == "ABCDEFGHIJKLMNOPQRSTUVWXYZ"
LowerChars == "abcdefghijklmnopqrstuvwxyz"

Ch(s, i) == SubSeq(s, i, i)

\* s[i:].startswith(p), for i >= 1
StartsWithAt(s, i, p) ==
    /\ i + Len(p) - 1 <= Len(s)
    /\ SubSeq(s, i, i + Len(p) - 1) = p

\* Python's  k in s  on strings
Contains(k, s) == \E i \in 1..(Len(s) + 1) : StartsWithAt(s, i, k)

LowerCh(c) ==
    IF \E i \in 1..26 : Ch(UpperChars, i) = c
    THEN Ch(LowerChars, CHOOSE i \in 1..26 : Ch(UpperChars, i) = c)
    ELSE c

RECURSIVE Lower(_)
\* str.lower()
Lower(s) ==
    IF Len(s) = 0 THEN ""
    ELSE LowerCh(Ch(s, 1)) \o Lower(SubSeq(s, 2, Len(s)))

RECURSIVE Join(_, _)
\* sep.join(parts)
Join(sep, parts) ==
    IF Len(parts) = 0 THEN ""
    ELSE IF Len(parts) = 1 THEN parts[1]
    ELSE parts[1] \o sep \o Join(sep, Tail(parts))

RECURSIVE Split(_, _)
\* s.split(sep), sep a single character
Split(s, sep) ==
    IF \E i \in 1..Len(s) : Ch(s, i) = sep
    THEN LET i == CHOOSE k \in 1..Len(s) :
                     /\ Ch(s, k) = sep
                     /\ \A j \in 1..(k - 1) : Ch(s, j) # sep
         IN  <<SubSeq(s, 1, i - 1)>> \o Split(SubSeq(s, i + 1, Len(s)), sep)
    ELSE <<s>>

RECURSIVE LStrip(_, _)
LStrip(s, c) ==
    IF Len(s) > 0 /\ Ch(s, 1) = c THEN LStrip(SubSeq(s, 2, Len(s)), c) ELSE s

RECURSIVE RStrip(_, _)
RStrip(s, c) ==
    IF Len(s) > 0 /\ Ch(s, Len(s)) = c
    THEN RStrip(SubSeq(s, 1, Len(s) - 1), c)
    ELSE s

\* s.strip(c), c a single character
Strip(s, c) == RStrip(LStrip(s, c), c)

\* parts[-n:]
LastN(parts, n) ==
    IF Len(parts) <= n THEN parts
    ELSE SubSeq(parts, Len(parts) - n + 1, Len(parts))

-----------------------------------------------------------------------------
(* The provider signature tables *)

One(name, keyword) == [name |-> name, isList |-> FALSE, keywords |-> <<keyword>>]
Many(name, keywords) == [name |-> name, isList |-> TRUE, keywords |-> keywords]

\* The dict hosting_providers, its items in insertion order.  A value that
\* is a plain string has isList = FALSE.
hosting_providers == <<
    One("BigCommerce", "bigcommerce"),
    One("Elementor", "elementor"),
    One("GoDaddy", "godaddy"),
    One("Hostinger", "hostinger"),
    One("Jimdo", "jimdo"),
    One("Shopify", "shopify"),
    One("Squarespace", "squarespace"),
    One("Webflow", "webflow"),
    One("Weebly", "weebly"),
    One("Wix", "wixstatic"),
    One("WooCommerce", "woocommerce"),
    Many("WordPress.org", <<"wp-content", "wp-", "wp-plugins", "wp-json",
                            "wp-block", "wp--preset", "wp-includes">>),
    One("WordPress.com", "wp.com") >>

\* The dict name_server_providers, its items in insertion order.
name_server_providers == <<
    Many("A2 Hosting", <<"a2hosting.com">>),
    Many("AWS", <<"awsdns">>),
    Many("Bluehost", <<"bluehost.com">>),
    Many("Cloudflare", <<"cloudflare.com">>),
    Many("DigitalOcean", <<"digitalocean.com">>),
    Many("GoDaddy", <<"domaincontrol.com">>),
    Many("Google Domains", <<"google.com", "googledomains.com">>),
    Many("HostGator", <<"hostgator.com">>),
    Many("Hostinger", <<"hostinger">>),
    Many("Namecheap", <<"namecheapdns.com", "dns-parking.com",
                        "registrar-servers.com">>),
    Many("SiteGround", <<"siteground">>),
    Many("WP Engine", <<"wpcdns.com">>),
    Many("WordPress.com", <<"wordpress.com">>),
    Many("Wix", <<"wixdns.net">>),
    Many("WPX Hosting", <<"wpx.net", "wpxhosting.com">>) >>

-----------------------------------------------------------------------------
(* Function results: a call returns a value or raises an exception *)

Return(v) == [kind |-> "return", val |-> v]
Raise(cls) == [kind |-> "raise", val |-> cls]

-----------------------------------------------------------------------------
(* identify_host *)

\* A parsed document, as identify_host reads it through BeautifulSoup:
\*   head     whether soup.head exists
\*   strings  head_tag.stripped_strings
\*   metas    the content attribute of each meta of the head (None: absent)
\*   scripts  the src attribute of each script of the head (None: absent)
\*   hrefs    the href attribute of each link of the head (None: absent)
\*   title    head_tag.title.string, None when the title has no single
\*            string, NoTitle when the head has no title element
Html(head, strings, metas, scripts, hrefs, title) ==
    [head |-> head, strings |-> strings, metas |-> metas,
     scripts |-> scripts, hrefs |-> hrefs, title |-> title]

\* tag.get(attr, default)
Get(attr, default) == IF attr = None THEN default ELSE attr

\* [f(x) for x in xs]
MapSeq(xs, f(_)) == [i \in 1..Len(xs) |-> f(xs[i])]

Truthy(attr) == attr # None /\ attr # ""

head_text(html) == Lower(Join(" ", html.strings))

meta_content(html) ==
    Join(" ", MapSeq(html.metas, LAMBDA m : Lower(Get(m, ""))))

script_srcs(html) ==
    Join(" ", MapSeq(SelectSeq(html.scripts, Truthy), LAMBDA a : Lower(a)))

link_hrefs(html) ==
    Join(" ", MapSeq(SelectSeq(html.hrefs, Truthy), LAMBDA a : Lower(a)))

\* head_tag.title.string.lower() if head_tag.title else "":
\* None has no lower(), the attribute access raises AttributeError.
title_content(html) ==
    IF html.title = NoTitle THEN Return("")
    ELSE IF html.title = None THEN Raise("AttributeError")
    ELSE Return(Lower(html.title))

combined_text(html) ==
    head_text(html) \o " " \o meta_content(html) \o " " \o script_srcs(html)
    \o " " \o link_hrefs(html) \o " " \o title_content(html).val

\* The test of one item of hosting_providers against the text.
HostKeywordsMatch(p, text) ==
    IF p.isList
    THEN \E k \in 1..Len(p.keywords) : Contains(p.keywords[k], text)
    ELSE Contains(p.keywords[1], text)

RECURSIVE HostLoopLastWins(_, _)
\* A loop that does not stop at the first match: the last match stands.
HostLoopLastWins(providers, text) ==
    IF Len(providers) = 0 THEN "Other"
    ELSE IF HostKeywordsMatch(providers[Len(providers)], text)
         THEN providers[Len(providers)].name
         ELSE HostLoopLastWins(SubSeq(providers, 1, Len(providers) - 1), text)

RECURSIVE HostLoop(_, _)
\* for provider, keywords in hosting_providers.items(): ... return "Other"
HostLoop(providers, text) ==
    IF Len(providers) = 0 THEN "Other"
    ELSE IF HostKeywordsMatch(providers[1], text) THEN providers[1].name
    ELSE HostLoop(Tail(providers), text)

identify_host(html) ==
    IF ~html.head THEN Return("Other")
    ELSE IF title_content(html).kind = "raise" THEN title_content(html)
    ELSE Return(HostLoop(hosting_providers, combined_text(html)))

-----------------------------------------------------------------------------
(* get_name_server_provider *)

\* The exceptions of the first except clause: the lookup had no record.
NoRecordErrors == {"NoAnswer", "NXDOMAIN", "NoNameservers"}

\* A slip in the test of the fallback: a retry for two parts already.
HasBaseDomainFromTwo(domain) == Len(Split(domain, ".")) > 1

\* len(parts) > 2, parts = domain.split('.')
HasBaseDomain(domain) == Len(Split(domain, ".")) > 2

\* '.'.join(parts[-2:])
base_domain(domain) == Join(".", LastN(Split(domain, "."), 2))

\* [str(rdata).strip('.') for rdata in answers]
ns_servers(answers) == MapSeq(answers, LAMBDA r : Strip(r, "."))

\* any(any(keyword in ns for keyword in keywords) for ns in ns_servers)
NsKeywordsMatch(p, servers) ==
    \E n \in 1..Len(servers) :
        \E k \in 1..Len(p.keywords) : Contains(p.keywords[k], servers[n])

RECURSIVE NsLoop(_, _)
\* for provider, keywords in name_server_providers.items(): ...
\* return ", ".join(ns_servers)
NsLoop(providers, servers) ==
    IF Len(providers) = 0 THEN Join(", ", servers)
    ELSE IF NsKeywordsMatch(providers[1], servers) THEN providers[1].name
    ELSE NsLoop(Tail(providers), servers)

\* Lines 143-147: the classification of a successful answer.
ClassifyAnswers(answers) == NsLoop(name_server_providers, ns_servers(answers))

-----------------------------------------------------------------------------
(* check_hosting: the domain of a link *)

\* The length of the match of  https?://(www\\.)?  at position i of s, 0 when
\* it does not match there.  In the raw string the group is  www\\.  : the
\* letters www, a backslash, then any one character but a newline.
MatchLen(s, i) ==
    LET afterHttp == i + 4
        afterS == IF StartsWithAt(s, afterHttp, "s") THEN afterHttp + 1
                  ELSE afterHttp
        afterScheme == afterS + 3
    IN  IF ~(StartsWithAt(s, i, "http") /\ StartsWithAt(s, afterS, "://"))
        THEN 0
        ELSE IF /\ StartsWithAt(s, afterScheme, "www\\")
                /\ afterScheme + 4 <= Len(s)
                /\ Ch(s, afterScheme + 4) # "\n"
             THEN afterScheme + 5 - i
             ELSE afterScheme - i

RECURSIVE ReSub(_)
\* re.sub(r"https?://(www\\.)?", "", s): every match, left to right, removed
ReSub(s) ==
    IF Len(s) = 0 THEN ""
    ELSE IF MatchLen(s, 1) > 0
         THEN ReSub(SubSeq(s, MatchLen(s, 1) + 1, Len(s)))
         ELSE Ch(s, 1) \o ReSub(SubSeq(s, 2, Len(s)))

\* re.sub(...).split("/")[0]
DomainOf(link) == Split(ReSub(link), "/")[1]

-----------------------------------------------------------------------------
(* check_hosting: the except clauses *)

\* The classes an exception is an instance of (requests.exceptions,
\* dns.resolver, dns.exception and the builtins).
Ancestors(cls) ==
    {cls, "Exception"} \cup
    CASE cls = "ReadTimeout" -> {"Timeout", "RequestException"}
      [] cls = "ConnectTimeout" ->
             {"ConnectionError", "Timeout", "RequestException"}
      [] cls = "SSLError" -> {"ConnectionError", "RequestException"}
      [] cls = "ProxyError" -> {"ConnectionError", "RequestException"}
      [] cls = "HTTPError" -> {"RequestException"}
      [] cls = "ConnectionError" -> {"RequestException"}
      [] cls = "TooManyRedirects" -> {"RequestException"}
      [] cls = "LifetimeTimeout" -> {"dns.exception.Timeout", "DNSException"}
      [] cls \in NoRecordErrors -> {"DNSException"}
      [] OTHER -> {}

\* The except clauses with the generic connection error ahead of its
\* subclasses.
ExceptClausesConnectionFirst(status) == <<
    [cls |-> "ConnectionError", host |-> "[ERROR] Connection Error"],
    [cls |-> "Timeout", host |-> "Timeout (Increase timeout)"],
    [cls |-> "SSLError", host |-> "SSL Error (Invalid Cert)"],
    [cls |-> "HTTPError", host |-> "[ERROR] HTTP Error " \o ToString(status)],
    [cls |-> "RequestException", host |-> "[ERROR] Request Failed"] >>

\* The except clauses of check_hosting in their order, each with the host it
\* sets; the status of an HTTP error is taken from response.
ExceptClauses(status) == <<
    [cls |-> "Timeout", host |-> "Timeout (Increase timeout)"],
    [cls |-> "SSLError", host |-> "SSL Error (Invalid Cert)"],
    [cls |-> "HTTPError", host |-> "[ERROR] HTTP Error " \o ToString(status)],
    [cls |-> "ConnectionError", host |-> "[ERROR] Connection Error"],
    [cls |-> "RequestException", host |-> "[ERROR] Request Failed"] >>

\* Whether some except clause of check_hosting catches the exception.
Caught(cls) ==
    \E k \in 1..Len(ExceptClauses(0)) :
        ExceptClauses(0)[k].cls \in Ancestors(cls)

\* The host set by the first except clause that catches the exception.
HandlerHost(cls, status) ==
    LET clauses == ExceptClauses(status)
        k == CHOOSE j \in 1..Len(clauses) :
                 /\ clauses[j].cls \in Ancestors(cls)
                 /\ \A h \in 1..(j - 1) : clauses[h].cls \notin Ancestors(cls)
    IN  clauses[k].host

-----------------------------------------------------------------------------
(* The outside world: the web and the DNS *)

DocShopify ==
    Html(TRUE, <<"My Shop">>, <<"width=device-width">>,
         <<"https://cdn.shopify.com/s/files/x.js", None>>,
         <<"/favicon.ico">>, "My Shop")

DocElementorWp ==
    Html(TRUE, <<"Acme Blog">>, <<"Elementor 3.1.4", None>>, <<>>,
         <<"https://example.com/wp-content/themes/x/style.css", "">>,
         "Acme Blog")

DocPlain == Html(TRUE, <<>>, <<"utf-8">>, <<None>>, <<>>, NoTitle)

DocNoHead == Html(FALSE, <<>>, <<>>, <<>>, <<>>, NoTitle)

DocUpperTitle ==
    Html(TRUE, <<"Made with SQUARESPACE">>, <<>>, <<>>, <<>>,
         "Made with SQUARESPACE")

DocWixWp ==
    Html(TRUE, <<"Store">>, <<>>,
         <<"https://static.wixstatic.com/a.js", "https://stats.wp.com/e.js">>,
         <<>>, "Store")

DocWpCom ==
    Html(TRUE, <<"Blog">>, <<>>, <<"https://s0.wp.com/i.js">>, <<>>, "Blog")

\* <head><title></title><link href="/wp-json/"></head>: the title element
\* is there and has no string.
DocEmptyTitle ==
    Html(TRUE, <<>>, <<"WordPress 6.2">>, <<>>, <<"/wp-json/">>, None)

\* requests.get(link, ...) followed by response.raise_for_status().
Response(status, html) ==
    [kind |-> "return", val |-> html, status |-> status]
HttpError(status) ==
    [kind |-> "raise", val |-> "HTTPError", status |-> status]
RequestError(cls) == [kind |-> "raise", val |-> cls, status |-> 0]

\* What the GET of each url yields.
Web(url) ==
    CASE url = "https://www.example.com/path" -> Response(200, DocShopify)
      [] url = "https://example.com" -> Response(200, DocElementorWp)
      [] url = "http://blog.acme.io/post/1" -> Response(200, DocPlain)
      [] url = "https://acme.dev" -> Response(200, DocNoHead)
      [] url = "http://localhost/" -> Response(200, DocUpperTitle)
      [] url = "https://shop.brand.co.uk/" -> Response(200, DocWixWp)
      [] url = "https://slow-dns.example.org" -> Response(200, DocWpCom)
      [] url = "https://untitled.example.net" -> Response(200, DocEmptyTitle)
      [] url = "https://caps.example.net" -> Response(200, DocPlain)
      [] url = "https://multi.example.net" -> Response(200, DocShopify)
      [] url = "https://timeout.test" -> RequestError("ReadTimeout")
      [] url = "https://connect-timeout.test" -> RequestError("ConnectTimeout")
      [] url = "https://expired.badssl.test" -> RequestError("SSLError")
      [] url = "https://gone.test/missing" -> HttpError(404)
      [] url = "https://down.test" -> HttpError(503)
      [] url = "https://refused.test" -> RequestError("ConnectionError")
      [] url = "https://loop.test" -> RequestError("TooManyRedirects")
      [] OTHER -> RequestError("ConnectionError")

\* What dns.resolver.resolve(domain, 'NS') yields: the str() of each record
\* of the answer, or the exception raised.
Zone(domain) ==
    CASE domain = "example.com" ->
             Return(<<"ns1.domaincontrol.com.", "ns2.domaincontrol.com.">>)
      [] domain = "www.example.com" -> Raise("NoAnswer")
      [] domain = "blog.acme.io" -> Raise("NXDOMAIN")
      [] domain = "acme.io" ->
             Return(<<"ns1.acme-dns.net.", "ns2.acme-dns.net.">>)
      [] domain = "acme.dev" -> Raise("NoAnswer")
      [] domain = "localhost" -> Raise("NXDOMAIN")
      [] domain = "shop.brand.co.uk" -> Raise("NoNameservers")
      [] domain = "co.uk" -> Raise("LifetimeTimeout")
      [] domain = "slow-dns.example.org" -> Raise("LifetimeTimeout")
      [] domain = "caps.example.net" -> Return(<<"NS1.DOMAINCONTROL.COM.">>)
      [] domain = "multi.example.net" ->
             Return(<<"dns1.registrar-servers.com.", "ns-1.awsdns-01.org.">>)
      [] OTHER -> Raise("NXDOMAIN")

\* The InputLinks the list is drawn from: (source_name, source_url, link).
InputLinks == {
    <<"Case Study", "https://ref.example", "https://www.example.com/path">>,
    <<"Case Study", "https://ref.example", "https://example.com">>,
    <<"Partners", "https://ref.example/p", "http://blog.acme.io/post/1">>,
    <<"Manual Entry", "N/A", "https://acme.dev">>,
    <<"Manual Entry", "N/A", "http://localhost/">>,
    <<"CSV Entry", "N/A", "https://shop.brand.co.uk/">>,
    <<"CSV Entry", "N/A", "https://slow-dns.example.org">>,
    <<"Manual Entry", "N/A", "https://untitled.example.net">>,
    <<"Manual Entry", "N/A", "https://caps.example.net">>,
    <<"Partners", "https://ref.example/p", "https://multi.example.net">>,
    <<"CSV Entry", "N/A", "https://timeout.test">>,
    <<"CSV Entry", "N/A", "https://connect-timeout.test">>,
    <<"Manual Entry", "N/A", "https://expired.badssl.test">>,
    <<"Partners", "https://ref.example/p", "https://gone.test/missing">>,
    <<"Manual Entry", "N/A", "https://down.test">>,
    <<"CSV Entry", "N/A", "https://refused.test">>,
    <<"Manual Entry", "N/A", "https://loop.test">> }

-----------------------------------------------------------------------------
(* check_hosting as a state machine *)

VARIABLES
    links_with_context, \* the argument of check_hosting
    pc,            \* the statement check_hosting is at
    idx,           \* the position of the for loop in the list, from 1
    host,          \* the local host
    ns_provider,   \* the local ns_provider
    response,      \* the local response: its status_code and parsed text
    domain,        \* the domain a lookup is made for
    answers,       \* the answers of the successful lookup
    results,       \* the list results
    uncaught,      \* the exception that left check_hosting, None if none
    log            \* history: the network operations and list appends

vars == <<links_with_context, pc, idx, host, ns_provider, response, domain,
          answers, results, uncaught, log>>

NoResponse == [status_code |-> 0, text |-> DocNoHead]

Event(op, i, arg) == [op |-> op, i |-> i, arg |-> arg]

RECURSIVE SeqsUpTo(_, _)
\* The sequences over S of length at most n.
SeqsUpTo(S, n) ==
    IF n = 0 THEN {<<>>}
    ELSE SeqsUpTo(S, n - 1) \cup
         {Append(q, x) : q \in {r \in SeqsUpTo(S, n - 1) : Len(r) = n - 1},
                         x \in S}

Init ==
    /\ links_with_context \in SeqsUpTo(InputLinks, MaxLinks)
    /\ pc = "for"
    /\ idx = 1
    /\ host = "Other"
    /\ ns_provider = "Unknown"
    /\ response = NoResponse
    /\ domain = ""
    /\ answers = <<>>
    /\ results = <<>>
    /\ uncaught = None
    /\ log = <<>>

link == links_with_context[idx][3]

\* An exception leaves the try statement: the first except clause that
\* catches it sets host and the loop body goes on to the append; an
\* exception no clause catches leaves check_hosting.
RaiseInTry(cls, status) ==
    IF Caught(cls)
    THEN /\ host' = HandlerHost(cls, status)
         /\ pc' = "append"
         /\ UNCHANGED uncaught
    ELSE /\ uncaught' = cls
         /\ pc' = "raised"
         /\ UNCHANGED host

\* Line 152-154: the for loop takes the next item and resets the locals.
ForNext ==
    /\ pc = "for"
    /\ idx <= Len(links_with_context)
    /\ host' = "Other"
    /\ ns_provider' = "Unknown"
    /\ pc' = "get"
    /\ UNCHANGED <<links_with_context, idx, response, domain, answers,
                   results, uncaught, log>>

\* Line 178: the list is exhausted, return results.
ReturnResults ==
    /\ pc = "for"
    /\ idx > Len(links_with_context)
    /\ pc' = "done"
    /\ UNCHANGED <<links_with_context, idx, host, ns_provider, response,
                   domain, answers, results, uncaught, log>>

\* Lines 156-157: requests.get and raise_for_status.  response is assigned
\* when requests.get returns, also when raise_for_status then raises.
Fetch ==
    /\ pc = "get"
    /\ log' = Append(log, Event("get", idx, link))
    /\ LET r == Web(link) IN
         /\ response' =
                IF r.kind = "return"
                THEN [status_code |-> r.status, text |-> r.val]
                ELSE IF r.val = "HTTPError"
                THEN [status_code |-> r.status, text |-> DocNoHead]
                ELSE response
         /\ IF r.kind = "return"
            THEN /\ pc' = "identify"
                 /\ UNCHANGED <<host, uncaught>>
            ELSE RaiseInTry(r.val, response'.status_code)
    /\ UNCHANGED <<links_with_context, idx, ns_provider, domain, answers,
                   results>>

\* Line 158: host = identify_host(response.text)
IdentifyHost ==
    /\ pc = "identify"
    /\ LET r == identify_host(response.text) IN
         IF r.kind = "return"
         THEN /\ host' = r.val
              /\ pc' = "domain"
              /\ UNCHANGED uncaught
         ELSE RaiseInTry(r.val, response.status_code)
    /\ UNCHANGED <<links_with_context, idx, ns_provider, response, domain,
                   answers, results, log>>

\* Line 159: domain = re.sub(...).split("/")[0]
DeriveDomain ==
    /\ pc = "domain"
    /\ domain' = DomainOf(link)
    /\ pc' = "resolve"
    /\ UNCHANGED <<links_with_context, idx, host, ns_provider, response,
                   answers, results, uncaught, log>>

\* Lines 129-141, first lookup: dns.resolver.resolve(domain, 'NS').  A
\* no-record error is caught: a domain of more than two parts goes on to
\* the base domain, another returns "DNS Lookup Failed".  Any other
\* exception leaves get_name_server_provider and reaches the try statement
\* of check_hosting.
ResolveExact ==
    /\ pc = "resolve"
    /\ log' = Append(log, Event("resolve", idx, domain))
    /\ LET r == Zone(domain) IN
         IF r.kind = "return"
         THEN /\ answers' = r.val
              /\ pc' = "classify"
              /\ UNCHANGED <<host, ns_provider, uncaught>>
         ELSE IF r.val \in NoRecordErrors
         THEN /\ IF HasBaseDomain(domain)
                 THEN /\ pc' = "resolve_base"
                      /\ UNCHANGED ns_provider
                 ELSE /\ ns_provider' = "DNS Lookup Failed"
                      /\ pc' = "append"
              /\ UNCHANGED <<host, answers, uncaught>>
         ELSE /\ RaiseInTry(r.val, response.status_code)
              /\ UNCHANGED <<answers, ns_provider>>
    /\ UNCHANGED <<links_with_context, idx, response, domain, results>>

\* Lines 135-139: the lookup of the base domain; except Exception catches
\* whatever it raises.
ResolveBase ==
    /\ pc = "resolve_base"
    /\ log' = Append(log, Event("resolve", idx, base_domain(domain)))
    /\ LET r == Zone(base_domain(domain)) IN
         IF r.kind = "return"
         THEN /\ answers' = r.val
              /\ pc' = "classify"
              /\ UNCHANGED ns_provider
         ELSE /\ ns_provider' = "DNS Lookup Failed"
              /\ pc' = "append"
              /\ UNCHANGED answers
    /\ UNCHANGED <<links_with_context, idx, host, response, domain, results,
                   uncaught>>

\* Lines 143-147 and the assignment of line 160.
ClassifyNs ==
    /\ pc = "classify"
    /\ ns_provider' = ClassifyAnswers(answers)
    /\ pc' = "append"
    /\ UNCHANGED <<links_with_context, idx, host, response, domain, answers,
                   results, uncaught, log>>

\* Line 176: results.append((source_name, source_url, link, host, ns_provider))
AppendResult ==
    /\ pc = "append"
    /\ results' = Append(results,
                         <<links_with_context[idx][1],
                           links_with_context[idx][2], link, host,
                           ns_provider>>)
    /\ log' = Append(log, Event("append", idx, link))
    /\ pc' = "sleep"
    /\ UNCHANGED <<links_with_context, idx, host, ns_provider, response,
                   domain, answers, uncaught>>

\* Line 177: time.sleep(1), then the loop goes to the next item.
Sleep ==
    /\ pc = "sleep"
    /\ log' = Append(log, Event("sleep", idx, link))
    /\ idx' = idx + 1
    /\ pc' = "for"
    /\ UNCHANGED <<links_with_context, host, ns_provider, response, domain,
                   answers, results, uncaught>>

Next ==
    \/ ForNext
    \/ ReturnResults
    \/ Fetch
    \/ IdentifyHost
    \/ DeriveDomain
    \/ ResolveExact
    \/ ResolveBase
    \/ ClassifyNs
    \/ AppendResult
    \/ Sleep

Spec == Init /\ [][Next]_vars

-----------------------------------------------------------------------------
(* Vocabulary of the properties *)

Url(i) == links_with_context[i][3]

\* check_hosting has ended: it returned results or an exception left it.
Ended == pc \in {"done", "raised"}

\* The fetch of a url failed / succeeded.
FetchFailed(url) == Web(url).kind = "raise"
FetchOk(url) == Web(url).kind = "return"

\* The positions of the log where operation op was made for record i.
At(op, i) == {k \in 1..Len(log) : log[k].op = op /\ log[k].i = i}

\* The domains looked up for record i, in the order of the lookups.
Lookups(i) ==
    MapSeq(SelectSeq(log, LAMBDA e : e.op = "resolve" /\ e.i = i),
           LAMBDA e : e.arg)

\* The last two labels of a domain of at least two labels.
LastTwoLabels(d) ==
    LET labels == Split(d, ".")
    IN  labels[Len(labels) - 1] \o "." \o labels[Len(labels)]

NoRecord(d) == Zone(d).kind = "raise" /\ Zone(d).val \in NoRecordErrors

\* The statements at which host holds what identify_host returned for the
\* record at hand.
Identified == pc \in {"domain", "resolve", "resolve_base", "classify"}

ProviderNames(table) == {table[k].name : k \in 1..Len(table)}

-----------------------------------------------------------------------------
(* C1 *)

\* C1: per-record failures are isolated: whatever the fetch, the HTML
\* classification or the NS resolution of a record does, no exception
\* leaves check_hosting and the batch goes on.
C1_NoRecordAbortsBatch == pc # "raised" /\ uncaught = None

-----------------------------------------------------------------------------
(* C2 *)

\* C2: when check_hosting has ended, results holds exactly one result per
\* input, the i-th carrying the source name, source url and link of the
\* i-th input.
C2_OneResultPerInputInOrder ==
    Ended =>
        /\ Len(results) = Len(links_with_context)
        /\ \A i \in 1..Len(results) :
               SubSeq(results[i], 1, 3) = links_with_context[i]

-----------------------------------------------------------------------------
(* C3 *)

\* The tag the failure taxonomy gives each kind of fetch failure.
FailureTag(r) ==
    CASE r.val \in {"ReadTimeout", "ConnectTimeout"} ->
             "Timeout (Increase timeout)"
      [] r.val = "SSLError" -> "SSL Error (Invalid Cert)"
      [] r.val = "HTTPError" -> "[ERROR] HTTP Error " \o ToString(r.status)
      [] r.val \in {"ConnectionError", "ProxyError"} ->
             "[ERROR] Connection Error"
      [] OTHER -> "[ERROR] Request Failed"

\* C3: a record whose fetch failed has the tag of its failure kind as host
\* and "Unknown" as NS provider, and no NS lookup is ever made for a record
\* whose fetch failed.
C3_FetchFailureTags ==
    /\ \A i \in 1..Len(results) :
           FetchFailed(Url(i)) =>
               /\ results[i][4] = FailureTag(Web(Url(i)))
               /\ results[i][5] = "Unknown"
    /\ \A k \in 1..Len(log) :
           log[k].op = "resolve" => FetchOk(Url(log[k].i))

\* Two failed fetches of different kinds, each also an instance of a more
\* generic kind, have been recorded.
C3_Witness ==
    /\ Len(results) = 2
    /\ FetchFailed(Url(1)) /\ Web(Url(1)).val = "SSLError"
    /\ FetchFailed(Url(2)) /\ Web(Url(2)).val = "ConnectTimeout"
    /\ results[1][4] = "SSL Error (Invalid Cert)"
    /\ results[2][4] = "Timeout (Increase timeout)"

-----------------------------------------------------------------------------
(* C4 *)

\* The NS resolution of a domain fails: the exact lookup fails with another
\* error than no-record, or it fails with no-record and there is no base
\* domain to retry or the retry fails.
ResolutionFails(d) ==
    /\ Zone(d).kind = "raise"
    /\ \/ ~NoRecord(d)
       \/ Len(Split(d, ".")) <= 2
       \/ Zone(LastTwoLabels(d)).kind = "raise"

\* C4: a failure of NS resolution never leaves get_name_server_provider as
\* an exception, and the record of a fetched site whose resolution failed
\* has NS provider "DNS Lookup Failed".
C4_ResolutionFailureIsTagged ==
    /\ "DNSException" \notin Ancestors(uncaught)
    /\ \A i \in 1..Len(results) :
           (FetchOk(Url(i)) /\ ResolutionFails(DomainOf(Url(i)))) =>
               results[i][5] = "DNS Lookup Failed"

-----------------------------------------------------------------------------
(* C5 *)

\* C5: for a recorded site whose exact lookup failed with no-record: a
\* domain of more than two labels got exactly one more lookup, of its last
\* two labels, and when that one succeeded the NS provider is the
\* classification of its answer; a domain of at most two labels got no
\* second lookup and its NS provider is "DNS Lookup Failed".
C5_BaseDomainFallback ==
    \A i \in 1..Len(results) :
        LET d == DomainOf(Url(i)) IN
        (FetchOk(Url(i)) /\ NoRecord(d)) =>
            IF Len(Split(d, ".")) > 2
            THEN /\ Lookups(i) = <<d, LastTwoLabels(d)>>
                 /\ Zone(LastTwoLabels(d)).kind = "return" =>
                        /\ results[i][5] =
                               ClassifyAnswers(Zone(LastTwoLabels(d)).val)
                        /\ results[i][5] # "DNS Lookup Failed"
            ELSE /\ Lookups(i) = <<d>>
                 /\ results[i][5] = "DNS Lookup Failed"

\* A three-label domain resolved through its base domain, and a two-label
\* domain that failed without a retry, have been recorded.
C5_Witness ==
    /\ Len(results) = 2
    /\ DomainOf(Url(1)) = "blog.acme.io" /\ NoRecord("blog.acme.io")
    /\ Lookups(1) = <<"blog.acme.io", "acme.io">>
    /\ results[1][5] = "ns1.acme-dns.net, ns2.acme-dns.net"
    /\ DomainOf(Url(2)) = "acme.dev" /\ NoRecord("acme.dev")
    /\ results[2][5] = "DNS Lookup Failed"

-----------------------------------------------------------------------------
(* C6 *)

\* C6: when check_hosting has ended, every record had exactly one fetch,
\* at most two lookups, all after its fetch, then its append, then its
\* delay, and the fetch of the next record came after that delay.
C6_StrictlySequential ==
    Ended =>
        \A i \in 1..Len(links_with_context) :
            /\ Cardinality(At("get", i)) = 1
            /\ Cardinality(At("resolve", i)) <= 2
            /\ Cardinality(At("append", i)) = 1
            /\ Cardinality(At("sleep", i)) = 1
            /\ \A g \in At("get", i), r \in At("resolve", i) : g < r
            /\ \A g \in At("get", i), a \in At("append", i) : g < a
            /\ \A r \in At("resolve", i), a \in At("append", i) : r < a
            /\ \A a \in At("append", i), z \in At("sleep", i) : a < z
            /\ \A z \in At("sleep", i), g \in At("get", i + 1) : z < g

-----------------------------------------------------------------------------
(* C7 *)

Present(attrs) == SelectSeq(attrs, LAMBDA a : a # None /\ a # "")

\* The corpus of a document with a head: the head's text, the content of
\* its metas, the src of its scripts, the href of its links and the title
\* string if there is one, joined by spaces, the whole lower-cased.
Corpus(html) ==
    Lower(Join(" ", << Join(" ", html.strings),
                       Join(" ", MapSeq(html.metas, LAMBDA m :
                                            IF m = None THEN "" ELSE m)),
                       Join(" ", Present(html.scripts)),
                       Join(" ", Present(html.hrefs)),
                       IF html.title \in {None, NoTitle} THEN ""
                       ELSE html.title >>))

\* The providers of hosting_providers, by position, with a signature that
\* occurs in the text.
Matching(text) ==
    {k \in 1..Len(hosting_providers) :
        \E j \in 1..Len(hosting_providers[k].keywords) :
            Contains(hosting_providers[k].keywords[j], text)}

FirstDeclaredMatch(html) ==
    IF ~html.head \/ Matching(Corpus(html)) = {} THEN "Other"
    ELSE hosting_providers[CHOOSE k \in Matching(Corpus(html)) :
             \A j \in Matching(Corpus(html)) : k <= j].name

\* C7: what identify_host returned for the response at hand is the provider
\* declared first among those with a signature in the lower-cased corpus,
\* "Other" when there is none or the document has no head.
C7_FirstDeclaredProviderWins ==
    Identified => host = FirstDeclaredMatch(response.text)

\* A document whose corpus matches two providers was classified as the one
\* declared first.
C7_Witness ==
    /\ pc = "domain"
    /\ Cardinality(Matching(Corpus(response.text))) >= 2
    /\ host = "Elementor"

-----------------------------------------------------------------------------
(* C8 *)

\* What the resolution of a domain ends with: the answer of the exact
\* lookup, or that of the base domain after a no-record failure.
Resolved(d) ==
    IF NoRecord(d) /\ Len(Split(d, ".")) > 2 THEN Zone(LastTwoLabels(d))
    ELSE Zone(d)

\* The first provider of name_server_providers with a signature that is a
\* case-insensitive substring of a server name, its trailing dots stripped;
\* the stripped names joined with ", " when there is none.
CaseInsensitiveNsProvider(ans) ==
    LET names == MapSeq(ans, LAMBDA r : RStrip(r, "."))
        hits == {k \in 1..Len(name_server_providers) :
                    \E n \in 1..Len(names) :
                        \E j \in 1..Len(name_server_providers[k].keywords) :
                            Contains(Lower(name_server_providers[k].keywords[j]),
                                     Lower(names[n]))}
    IN  IF hits = {} THEN Join(", ", names)
        ELSE name_server_providers[CHOOSE k \in hits :
                 \A j \in hits : k <= j].name

\* C8: the NS provider of a recorded site whose resolution succeeded is the
\* first declared provider matching a server name case-insensitively, or
\* the joined server names when no provider matches.
C8_CaseInsensitiveNsMatch ==
    \A i \in 1..Len(results) :
        LET r == Resolved(DomainOf(Url(i))) IN
        (FetchOk(Url(i)) /\ r.kind = "return") =>
            results[i][5] = CaseInsensitiveNsProvider(r.val)

-----------------------------------------------------------------------------
(* C9 *)

\* The url without its scheme, without one leading "www." and without
\* everything from the first "/" on.
BareDomain(url) ==
    LET noScheme == IF StartsWithAt(url, 1, "https://")
                    THEN SubSeq(url, 9, Len(url))
                    ELSE IF StartsWithAt(url, 1, "http://")
                    THEN SubSeq(url, 8, Len(url))
                    ELSE url
        noWww == IF StartsWithAt(noScheme, 1, "www.")
                 THEN SubSeq(noScheme, 5, Len(noScheme))
                 ELSE noScheme
    IN  Split(noWww, "/")[1]

\* C9: the domain handed to get_name_server_provider is the bare domain of
\* the link.
C9_LookupOfBareDomain == pc = "resolve" => domain = BareDomain(link)

-----------------------------------------------------------------------------
(* C10 *)

\* C10: identify_host raises on no document: no AttributeError leaves the
\* classification, and what it returned is a provider name or "Other".
C10_IdentifyHostNeverRaises ==
    /\ uncaught # "AttributeError"
    /\ Identified =>
           host \in ProviderNames(hosting_providers) \cup {"Other"}

=============================================================================
